---- MODULE Spec2Model ----
(***************************************************************************)
(* asm-leg: lowering of the structured assembly dialect (src/syntax.rs)    *)
(* and the driver that prints the lowered program (src/main.rs).           *)
(*                                                                         *)
(* Text is a string; "\n" separates its lines and " " the fields of a line. *)
(***************************************************************************)
EXTENDS Integers, Sequences, FiniteSets, TLC

(***************************************************************************)
(* Bounds of the model.                                                    *)
(***************************************************************************)
\* nanoseconds the wall clock advances during one run of main
MaxClock == 1
\* longest statement list inside a While / If / Loop of the rich family
MaxBody == 1
\* longest multi-statement program
MaxProgLen == 2

(***************************************************************************)
(* AST: Reg, Val, Bop, Uop, Cmp, Cond, Stmt.                               *)
(***************************************************************************)
Regs == {"R0", "R1", "R2", "R3", "R4", "R5", "P", "I", "O"}
Bops == {"Add", "Sub", "And", "Or", "Xor", "Shl", "Shr", "Rol", "Ror",
         "Ashr", "Mul", "Div"}
Uops == {"Not"}
Cmps == {"Eq", "Neq", "Lt", "Leq", "Gt", "Geq"}

\* Val::Reg(reg) and Val::Im(x)
Reg(r) == [k |-> "Reg", reg |-> r, im |-> 0]
Im(x) == [k |-> "Im", reg |-> "R0", im |-> x]

Cond(l, r, c) == [lhs |-> l, rhs |-> r, cmp |-> c]

\* One record shape for every Stmt variant; t is the variant's name and the
\* fields a variant does not have keep these fillers.
Stmt(t) ==
    [t |-> t, op |-> "", a |-> Reg("R0"), b |-> Reg("R0"), r |-> "R0",
     label |-> "", cond |-> Cond(Reg("R0"), Reg("R0"), "Eq"),
     block |-> <<>>, yes |-> <<>>, no |-> <<>>]
Bin(op, a, b, r) == [Stmt("Bin") EXCEPT !.op = op, !.a = a, !.b = b, !.r = r]
Un(op, a, r) == [Stmt("Un") EXCEPT !.op = op, !.a = a, !.r = r]
Hf(r) == [Stmt("Hf") EXCEPT !.r = r]
Call(s) == [Stmt("Call") EXCEPT !.label = s]
Args == Stmt("Args")
Ret == Stmt("Ret")
Save(addr, val) == [Stmt("Save") EXCEPT !.a = addr, !.b = val]
Load(addr, r) == [Stmt("Load") EXCEPT !.a = addr, !.r = r]
Label(l) == [Stmt("Label") EXCEPT !.label = l]
Br(l, c) == [Stmt("Br") EXCEPT !.label = l, !.cond = c]
While(c, block) == [Stmt("While") EXCEPT !.cond = c, !.block = block]
If(c, yes, no) == [Stmt("If") EXCEPT !.cond = c, !.yes = yes, !.no = no]
Loop(block) == [Stmt("Loop") EXCEPT !.block = block]

\* Cmp::inv
inv(c) ==
    CASE c = "Eq" -> "Neq"
      [] c = "Neq" -> "Eq"
      [] c = "Lt" -> "Geq"
      [] c = "Leq" -> "Gt"
      [] c = "Gt" -> "Leq"
      [] c = "Geq" -> "Lt"

(***************************************************************************)
(* ToNum.                                                                  *)
(***************************************************************************)
Reg_to_num(r) ==
    CASE r = "R0" -> 0
      [] r = "R1" -> 1
      [] r = "R2" -> 2
      [] r = "R3" -> 3
      [] r = "R4" -> 4
      [] r = "R5" -> 5
      [] r = "P" -> 6
      [] r = "I" -> 7
      [] r = "O" -> 7

Bop_to_num(op) ==
    CASE op = "Add" -> 0
      [] op = "Sub" -> 1
      [] op = "And" -> 2
      [] op = "Or" -> 3
      [] op = "Xor" -> 5
      [] op = "Shl" -> 8
      [] op = "Shr" -> 9
      [] op = "Rol" -> 10
      [] op = "Ror" -> 11
      [] op = "Ashr" -> 12
      [] op = "Mul" -> 13
      [] op = "Div" -> 14

Uop_to_num(op) == CASE op = "Not" -> 4

Val_to_num(v) == IF v.k = "Reg" THEN Reg_to_num(v.reg) ELSE v.im

Cmp_to_num(c) ==
    CASE c = "Eq" -> 16
      [] c = "Neq" -> 17
      [] c = "Lt" -> 18
      [] c = "Leq" -> 19
      [] c = "Gt" -> 20
      [] c = "Geq" -> 21

is_reg(v) == v.k = "Reg"
is_im(v) == v.k = "Im"

\* fix_u and fix_b add in u8.  The sum is kept as the mathematical sum: an
\* overflowing u8 addition panics (debug) or wraps (release), and ByteRange
\* below shows that no sum leaves 0..255.
fix_u(op, x) == op + (IF is_im(x) THEN 128 ELSE 0)

fix_b_swapped(op, l, r) ==
    op + (IF is_im(l) THEN 64 ELSE 0) + (IF is_im(r) THEN 128 ELSE 0)
fix_b(op, l, r) ==
    op + (IF is_im(l) THEN 128 ELSE 0) + (IF is_im(r) THEN 64 ELSE 0)

LOAD == 6
SAVE == 7
HF == 15

(***************************************************************************)
(* Number formatting: `{}` of a u8 / usize (decimal) and `{:X}` of a u32   *)
(* (upper-case hexadecimal), both without leading zeros.                   *)
(***************************************************************************)
Digits == <<"0", "1", "2", "3", "4", "5", "6", "7", "8", "9",
            "A", "B", "C", "D", "E", "F">>

RECURSIVE Dec(_)
Dec(n) == IF n < 10 THEN Digits[n + 1]
          ELSE Dec(n \div 10) \o Digits[(n % 10) + 1]

RECURSIVE Hex(_)
Hex(n) == IF n < 16 THEN Digits[n + 1]
          ELSE Hex(n \div 16) \o Digits[(n % 16) + 1]

SP == " "
NL == "\n"

\* [String]::join(sep)
RECURSIVE Join(_, _)
Join(strs, sep) ==
    IF strs = <<>> THEN ""
    ELSE IF Len(strs) = 1 THEN strs[1]
    ELSE strs[1] \o sep \o Join(Tail(strs), sep)

\* number of get_stamp calls one Display::fmt of the statement makes
RECURSIVE NumStamps(_), NumStampsAll(_)
NumStamps(s) ==
    CASE s.t = "While" -> 1 + NumStampsAll(s.block)
      [] s.t = "If" -> 1 + NumStampsAll(s.no) + NumStampsAll(s.yes)
      [] s.t = "Loop" -> 1 + NumStampsAll(s.block)
      [] OTHER -> 0
NumStampsAll(block) ==
    IF block = <<>> THEN 0
    ELSE NumStamps(Head(block)) + NumStampsAll(Tail(block))

S_label == "label "

\* "{op} {lhs} {rhs} " of a branch line
BrHead(op, cond) ==
    Dec(op) \o SP \o Dec(Val_to_num(cond.lhs)) \o SP
        \o Dec(Val_to_num(cond.rhs)) \o SP

\* "{jeq} 0 0 X": the unconditional branch of While, If and Loop
JmpFlagged(jeq, target) ==
    Dec(jeq + 192) \o " 0 0 " \o target
Jmp(jeq, target) ==
    Dec(jeq) \o " 0 0 " \o target

(***************************************************************************)
(* impl Display for Stmt.  st is the sequence of values the get_stamp      *)
(* calls of this fmt return, in call order: the construct's own stamp      *)
(* first, then those of the nested statements in the order the arguments   *)
(* of write! are evaluated (If: the `no` block before the `yes` block).    *)
(***************************************************************************)
FmtBin(s) ==
    Dec(fix_b(Bop_to_num(s.op), s.a, s.b)) \o SP \o Dec(Val_to_num(s.a)) \o SP
        \o Dec(Val_to_num(s.b)) \o SP \o Dec(Reg_to_num(s.r))

FmtUn(s) ==
    Dec(fix_u(Uop_to_num(s.op), s.a)) \o SP \o Dec(Val_to_num(s.a))
        \o " 0 " \o Dec(Reg_to_num(s.r))

FmtSave(s) ==
    Dec(fix_b(SAVE, s.a, s.b)) \o SP \o Dec(Val_to_num(s.a)) \o SP
        \o Dec(Val_to_num(s.b)) \o " 0"

FmtLoad(s) ==
    Dec(LOAD + (IF is_im(s.a) THEN 128 ELSE 0)) \o SP \o Dec(Val_to_num(s.a))
        \o " 0 " \o Dec(Reg_to_num(s.r))

FmtLabel(s) == S_label \o s.label

FmtBr(s) ==
    BrHead(fix_b(Cmp_to_num(s.cond.cmp), s.cond.lhs, s.cond.rhs), s.cond)
        \o s.label

\* blockStrs: the nested statements already formatted, one string each
FmtWhile(cond, stamp, blockStrs) ==
    S_label \o "L_" \o Hex(stamp) \o NL
        \o BrHead(fix_b(Cmp_to_num(inv(cond.cmp)), cond.lhs, cond.rhs), cond)
        \o "E_" \o Hex(stamp) \o NL
        \o Join(blockStrs, NL) \o NL
        \o Jmp(Cmp_to_num("Eq"), "L_" \o Hex(stamp)) \o NL
        \o S_label \o "E_" \o Hex(stamp)

FmtIfThenFirst(cond, stamp, noStrs, yesStrs) ==
    BrHead(fix_b(Cmp_to_num(cond.cmp), cond.lhs, cond.rhs), cond)
        \o "T_" \o Hex(stamp) \o NL
        \o (IF Len(yesStrs) > 0 THEN Join(yesStrs, NL) \o NL ELSE "")
        \o Jmp(Cmp_to_num("Eq"), "D_" \o Hex(stamp)) \o NL
        \o S_label \o "T_" \o Hex(stamp) \o NL
        \o Join(noStrs, NL) \o NL
        \o S_label \o "D_" \o Hex(stamp)
FmtIf(cond, stamp, noStrs, yesStrs) ==
    BrHead(fix_b(Cmp_to_num(cond.cmp), cond.lhs, cond.rhs), cond)
        \o "T_" \o Hex(stamp) \o NL
        \o (IF Len(noStrs) > 0 THEN Join(noStrs, NL) \o NL ELSE "")
        \o Jmp(Cmp_to_num("Eq"), "D_" \o Hex(stamp)) \o NL
        \o S_label \o "T_" \o Hex(stamp) \o NL
        \o Join(yesStrs, NL) \o NL
        \o S_label \o "D_" \o Hex(stamp)

FmtLoop(stamp, blockStrs) ==
    S_label \o "L_" \o Hex(stamp) \o NL
        \o Join(blockStrs, NL) \o NL
        \o Jmp(Cmp_to_num("Eq"), "L_" \o Hex(stamp))

FmtHf(s) == Dec(HF) \o " 0 0 " \o Dec(Reg_to_num(s.r))

\* "65 5 1 5\n{SAVE} 5 <reg> 0"
ArgsPair(reg) ==
    "65 5 1 5" \o NL
        \o Dec(SAVE) \o " 5 " \o Dec(reg) \o " 0"
FmtArgs ==
    ArgsPair(1) \o NL \o ArgsPair(2) \o NL \o ArgsPair(3) \o NL \o ArgsPair(4)

FmtCall(s) ==
    "64 6 8 0" \o NL
        \o Dec(SAVE) \o " 5 0 0" \o NL
        \o "64 " \o s.label \o " 0 6" \o NL

\* "{LOAD} 5 0 <reg>\n64 5 1 5"
RetPair(reg) ==
    Dec(LOAD) \o " 5 0 " \o Dec(reg) \o NL
        \o "64 5 1 5"
FmtRet ==
    RetPair(0) \o NL \o RetPair(4) \o NL \o RetPair(3) \o NL \o RetPair(2)
        \o NL \o RetPair(1) \o NL \o "64 0 0 6"

RECURSIVE Display(_, _), DisplayAll(_, _)
Display(s, st) ==
    CASE s.t = "Bin" -> FmtBin(s)
      [] s.t = "Un" -> FmtUn(s)
      [] s.t = "Save" -> FmtSave(s)
      [] s.t = "Load" -> FmtLoad(s)
      [] s.t = "Label" -> FmtLabel(s)
      [] s.t = "Br" -> FmtBr(s)
      [] s.t = "While" ->
           FmtWhile(s.cond, st[1], DisplayAll(s.block, Tail(st)))
      [] s.t = "If" ->
           LET n == NumStampsAll(s.no)
           IN  FmtIf(s.cond, st[1],
                     DisplayAll(s.no, SubSeq(st, 2, n + 1)),
                     DisplayAll(s.yes, SubSeq(st, n + 2, Len(st))))
      [] s.t = "Loop" -> FmtLoop(st[1], DisplayAll(s.block, Tail(st)))
      [] s.t = "Hf" -> FmtHf(s)
      [] s.t = "Args" -> FmtArgs
      [] s.t = "Call" -> FmtCall(s)
      [] s.t = "Ret" -> FmtRet

\* block.iter().map(|x| format!("{x}")).collect::<Vec<_>>()
DisplayAll(block, st) ==
    IF block = <<>> THEN <<>>
    ELSE LET n == NumStamps(Head(block))
         IN  <<Display(Head(block), SubSeq(st, 1, n))>>
                 \o DisplayAll(Tail(block), SubSeq(st, n + 1, Len(st)))

(***************************************************************************)
(* impl Debug for Reg, Val, Bop, Uop, Cmp, Cond, Stmt.                     *)
(***************************************************************************)
DebugReg(r) ==
    CASE r = "R0" -> "$0"
      [] r = "R1" -> "$1"
      [] r = "R2" -> "$2"
      [] r = "R3" -> "$3"
      [] r = "R4" -> "$4"
      [] r = "R5" -> "$5"
      [] r = "P" -> "$pc"
      [] r = "I" -> "$in"
      [] r = "O" -> "$out"

DebugVal(v) == IF v.k = "Reg" THEN DebugReg(v.reg) ELSE Dec(v.im)

DebugBop(op) ==
    CASE op = "Add" -> "add"
      [] op = "Sub" -> "sub"
      [] op = "And" -> "and"
      [] op = "Or" -> "or"
      [] op = "Xor" -> "xor"
      [] op = "Shl" -> "shl"
      [] op = "Shr" -> "shr"
      [] op = "Rol" -> "rol"
      [] op = "Ror" -> "ror"
      [] op = "Ashr" -> "ashr"
      [] op = "Mul" -> "mul"
      [] op = "Div" -> "div"

DebugUop(op) == CASE op = "Not" -> "not"

DebugCmp(c) ==
    CASE c = "Eq" -> "eq"
      [] c = "Neq" -> "neq"
      [] c = "Lt" -> "lt"
      [] c = "Leq" -> "leq"
      [] c = "Gt" -> "gt"
      [] c = "Geq" -> "geq"

DebugCond(c) ==
    DebugVal(c.lhs) \o SP \o DebugCmp(c.cmp) \o SP \o DebugVal(c.rhs)

S_arrow == " <- "
S_done == "done"

RECURSIVE DebugStmt(_), DebugAll(_)
DebugStmt(s) ==
    CASE s.t = "Bin" ->
           DebugReg(s.r) \o S_arrow \o DebugVal(s.a) \o SP \o DebugBop(s.op)
               \o SP \o DebugVal(s.b)
      [] s.t = "Un" ->
           DebugReg(s.r) \o S_arrow \o DebugUop(s.op) \o SP \o DebugVal(s.a)
      [] s.t = "Save" ->
           "[" \o DebugVal(s.a) \o "]" \o S_arrow \o DebugVal(s.b)
      [] s.t = "Load" ->
           DebugReg(s.r) \o S_arrow \o "[" \o DebugVal(s.a) \o "]"
      [] s.t = "Label" -> s.label \o ":"
      [] s.t = "Br" -> DebugCond(s.cond) \o " ? " \o s.label
      [] s.t = "While" ->
           "while " \o DebugCond(s.cond)
               \o " do" \o NL \o Join(DebugAll(s.block), NL)
               \o NL \o S_done
      [] s.t = "If" ->
           "if " \o DebugCond(s.cond) \o " then"
               \o NL \o Join(DebugAll(s.yes), NL) \o NL
               \o "else" \o NL \o Join(DebugAll(s.no), NL)
               \o NL \o S_done
      [] s.t = "Loop" ->
           "loop" \o NL \o Join(DebugAll(s.block), NL)
               \o NL \o S_done
      [] s.t = "Hf" -> DebugReg(s.r) \o S_arrow \o "$high"
      [] s.t = "Call" -> "call " \o s.label
      [] s.t = "Ret" -> "ret"
      [] s.t = "Args" -> "args"
DebugAll(block) ==
    IF block = <<>> THEN <<>>
    ELSE <<DebugStmt(Head(block))>> \o DebugAll(Tail(block))

(***************************************************************************)
(* Programs the parser may hand to main.                                   *)
(***************************************************************************)
\* the sequences over S of length lo..hi
SeqsOf(S, lo, hi) == UNION {[1..k -> S] : k \in lo..hi}

Ims == {0, 1, 255}
OperandRegs == {"R0", "O"}
DestRegs == {"R0", "P"}
Vals == {Reg(r) : r \in OperandRegs} \cup {Im(x) : x \in Ims}
Conds == {Cond(l, r, c) : l \in Vals, r \in Vals, c \in Cmps}
LabelF == "f"

Leaves ==
    {Bin(op, a, b, r) : op \in Bops, a \in Vals, b \in Vals, r \in DestRegs}
        \cup {Un(op, a, r) : op \in Uops, a \in Vals, r \in DestRegs}
        \cup {Hf(r) : r \in Regs}
        \cup {Call(LabelF), Args, Ret, Label(LabelF)}
        \cup {Save(a, b) : a \in Vals, b \in Vals}
        \cup {Load(a, r) : a \in Vals, r \in DestRegs}
        \cup {Br(LabelF, c) : c \in Conds}

AddStmt == Bin("Add", Reg("R0"), Im(1), "R0")
Cond0 == Cond(Reg("R0"), Im(0), "Eq")
TinyBodies == {<<>>, <<AddStmt>>}

\* every condition around the two smallest bodies
CondFamily ==
    {While(c, b) : c \in Conds, b \in TinyBodies}
        \cup {If(c, y, n) : c \in Conds, y \in TinyBodies, n \in TinyBodies}

\* one condition around every body of up to MaxBody statements, nested
\* constructs included
Inner == {While(Cond0, <<>>), If(Cond0, <<AddStmt>>, <<>>)}
BodyStmts == {AddStmt, Call(LabelF), Ret} \cup Inner
Bodies == SeqsOf(BodyStmts, 0, MaxBody)
BodyFamily ==
    {While(Cond0, b) : b \in Bodies}
        \cup {If(Cond0, y, n) : y \in Bodies, n \in Bodies}
        \cup {Loop(b) : b \in Bodies}

SeqStmts == {AddStmt, Call(LabelF), Args, Loop(<<AddStmt>>)} \cup Inner
Programs ==
    {<<s>> : s \in Leaves \cup CondFamily \cup BodyFamily}
        \cup SeqsOf(SeqStmts, 2, MaxProgLen)

(***************************************************************************)
(* State of one run of main.                                               *)
(***************************************************************************)
VARIABLES
    parsed,   \* what ProgramParser::parse returned: "Ok" or "Err"
    prog,     \* the Vec<Stmt> of Ok(x)
    idx,      \* position of for_each in prog
    stamps,   \* values get_stamp returned while the current statement is
              \* formatted: first for x.to_string(), then for `{x}`
    out,      \* standard output
    shown,    \* per printed statement, the text `{x}` wrote and its stamps
    now,      \* SystemTime::now(), nanoseconds since UNIX_EPOCH
    \* the target machine running the printed instructions
    code,     \* the instruction and label lines, as field sequences
    ip,       \* position in code of the next line
    regs,     \* registers 0..7
    mem,      \* memory: how it was filled at first, and the cells stored to since
    halted,   \* control has left through a computed jump
    regs0,    \* the registers before the first instruction
    saves,    \* every store so far: address, source register field, value
    loads     \* every load so far: address, destination register, value

pvars == <<parsed, prog, idx, stamps, out, shown, now>>
mvars == <<code, ip, regs, mem, halted, regs0, saves, loads>>
vars == <<parsed, prog, idx, stamps, out, shown, now,
          code, ip, regs, mem, halted, regs0, saves, loads>>

\* main.rs: const L
L == 15

\* The run starts at some instant and the clock advances at most MaxClock
\* nanoseconds during it.  The window starts at 255 so that the stamp's
\* hexadecimal text changes length inside it (FF, 100).
ClockWindow == 255..(255 + MaxClock)

\* `as_nanos() as u32` keeps the low 32 bits of the clock; ClockWindow
\* crosses no multiple of 2^32, so inside it they are the clock's offset.
get_stamp == now

\* the parse error's Display text
ErrMsg == "error"

RECURSIVE repeat_n(_, _)
repeat_n(ch, n) == IF n = 0 THEN "" ELSE ch \o repeat_n(ch, n - 1)

\* println!("{x}{} # {x:?}", pad): text is what `{x}` writes and l the
\* length of x.to_string()
Println(x, text, l) ==
    text \o repeat_n(" ", IF l < L THEN L - l ELSE 0)
        \o " # " \o DebugStmt(x) \o NL

Init ==
    /\ parsed \in {"Ok", "Err"}
    /\ prog \in (IF parsed = "Ok" THEN Programs ELSE {<<>>})
    /\ idx = 1
    /\ stamps = <<>>
    /\ out = ""
    /\ shown = <<>>
    /\ now = 255
    /\ code = <<>>
    /\ ip = 1
    /\ regs = [r \in 0..7 |-> 0]
    /\ mem = [fill |-> "zero", cells |-> <<>>]
    /\ halted = FALSE
    /\ regs0 = regs
    /\ saves = <<>>
    /\ loads = <<>>

Running == parsed = "Ok" /\ idx <= Len(prog)

\* time passes between two steps of main
Tick ==
    /\ Running
    /\ now + 1 \in ClockWindow
    /\ now' = now + 1
    /\ UNCHANGED <<parsed, prog, idx, stamps, out, shown>>
    /\ UNCHANGED mvars

\* one call of get_stamp by a While, If or Loop arm of Display::fmt
GetStamp ==
    /\ Running
    /\ Len(stamps) < 2 * NumStamps(prog[idx])
    /\ stamps' = Append(stamps, get_stamp)
    /\ UNCHANGED <<parsed, prog, idx, out, shown, now>>
    /\ UNCHANGED mvars

\* println!("{x}{} # {x:?}", pad) once every get_stamp of both fmt calls
\* has returned
PrintStmt ==
    /\ Running
    /\ Len(stamps) = 2 * NumStamps(prog[idx])
    /\ LET x == prog[idx]
           n == NumStamps(x)
           l == Len(Display(x, SubSeq(stamps, 1, n)))
           st == SubSeq(stamps, n + 1, 2 * n)
           text == Display(x, st)
       IN  /\ out' = out \o Println(x, text, l)
           /\ shown' = Append(shown, [text |-> text, st |-> st])
    /\ idx' = idx + 1
    /\ stamps' = <<>>
    /\ UNCHANGED <<parsed, prog, now>>
    /\ UNCHANGED mvars

\* Err(e) => println!("{e}")
PrintErr ==
    /\ parsed = "Err"
    /\ idx = 1
    /\ out' = ErrMsg \o NL
    /\ idx' = 2
    /\ UNCHANGED <<parsed, prog, stamps, shown, now>>
    /\ UNCHANGED mvars

Next == Tick \/ GetStamp \/ PrintStmt \/ PrintErr

Spec == Init /\ [][Next]_vars

(***************************************************************************)
(* Reading rendered text back: lines, fields, numbers, label names.        *)
(***************************************************************************)
\* the i-th character of a string
CharAt(s, i) == SubSeq(s, i, i)

\* the pieces of s between occurrences of ch, empty pieces included
SplitOn(s, ch) ==
    LET at == SelectSeq([i \in 1..Len(s) |-> i], LAMBDA i : CharAt(s, i) = ch)
        cut == <<0>> \o at \o <<Len(s) + 1>>
    IN  [k \in 1..(Len(cut) - 1) |-> SubSeq(s, cut[k] + 1, cut[k + 1] - 1)]

LinesOf(s) == SplitOn(s, "\n")
FieldsOf(line) == SelectSeq(SplitOn(line, " "), LAMBDA f : f # "")

DecChars == {"0", "1", "2", "3", "4", "5", "6", "7", "8", "9"}
DigitVal(ch) == CHOOSE v \in 0..9 : Digits[v + 1] = ch

RECURSIVE NumOf(_)
NumOf(f) == IF Len(f) = 1 THEN DigitVal(f)
            ELSE 10 * NumOf(SubSeq(f, 1, Len(f) - 1))
                     + DigitVal(CharAt(f, Len(f)))

\* f is the base-10 text of one byte
IsByte(f) ==
    /\ Len(f) \in 1..3
    /\ \A i \in 1..Len(f) : CharAt(f, i) \in DecChars
    /\ Len(f) = 1 \/ CharAt(f, 1) # "0"
    /\ NumOf(f) <= 255

\* f is a label name: it starts with something that is no digit
IsName(f) == Len(f) > 0 /\ CharAt(f, 1) \notin DecChars

\* f is a name that the lowering of a While, If or Loop mints
IsGenerated(f) ==
    Len(f) >= 3 /\ CharAt(f, 1) \in {"L", "E", "T", "D"} /\ CharAt(f, 2) = "_"

RECURSIVE Flatten(_)
Flatten(seqs) == IF seqs = <<>> THEN <<>> ELSE Head(seqs) \o Flatten(Tail(seqs))

\* every line of every statement printed so far, as field sequences
FieldLines(text) ==
    LET ls == LinesOf(text) IN [j \in 1..Len(ls) |-> FieldsOf(ls[j])]

AllLines == Flatten([i \in 1..Len(shown) |-> FieldLines(shown[i].text)])

\* the opcode field of the first line of the i-th printed statement
OpcodeOf(i) == NumOf(FieldsOf(LinesOf(shown[i].text)[1])[1])

Flag(v, bit) == IF v.k = "Im" THEN bit ELSE 0

LName(st) == "L_" \o Hex(st)
EName(st) == "E_" \o Hex(st)
TName(st) == "T_" \o Hex(st)
DName(st) == "D_" \o Hex(st)

\* the lines of the statements of a block, each statement's own text split
\* into its lines, in order
RECURSIVE BlockLines(_, _)
BlockLines(block, st) ==
    IF block = <<>> THEN <<>>
    ELSE LET n == NumStamps(Head(block))
             t == LinesOf(Display(Head(block), SubSeq(st, 1, n)))
         IN  [j \in 1..Len(t) |-> FieldsOf(t[j])]
                 \o BlockLines(Tail(block), SubSeq(st, n + 1, Len(st)))

\* a branch that is always taken: an equality test of an operand with itself
IsUncondBranchTo(fields, target) ==
    /\ Len(fields) = 4
    /\ IsByte(fields[1]) /\ NumOf(fields[1]) \in {16, 16 + 128 + 64}
    /\ fields[2] = fields[3]
    /\ fields[4] = target

Inverse(c) ==
    CASE c = "Eq" -> "Neq"
      [] c = "Neq" -> "Eq"
      [] c = "Lt" -> "Geq"
      [] c = "Geq" -> "Lt"
      [] c = "Leq" -> "Gt"
      [] c = "Gt" -> "Leq"

(***************************************************************************)
(* Claims about the rendered text (specification Spec).                    *)
(***************************************************************************)

\* C1: within one render of a program the label names that different
\* While / If / Loop constructs mint are pairwise distinct, so no generated
\* name is declared by two `label` lines.
C1_GeneratedLabelsDistinct ==
    LET decl == SelectSeq(AllLines,
                    LAMBDA f : Len(f) = 2 /\ f[1] = "label"
                                /\ IsGenerated(f[2]))
    IN  \A i, j \in 1..Len(decl) : i # j => decl[i] # decl[j]

\* C2: the opcode field is base + 128 for an immediate first operand + 64
\* for an immediate second operand (Bin, Br, Save), base + 128 for an
\* immediate operand (Un, Load), and it is a byte.
C2_OpcodePacking ==
    \A i \in 1..Len(shown) :
        LET x == prog[i]
        IN  /\ x.t = "Bin" =>
                 OpcodeOf(i) = Bop_to_num(x.op) + Flag(x.a, 128) + Flag(x.b, 64)
            /\ x.t = "Br" =>
                 OpcodeOf(i) =
                     Cmp_to_num(x.cond.cmp) + Flag(x.cond.lhs, 128)
                         + Flag(x.cond.rhs, 64)
            /\ x.t = "Save" => OpcodeOf(i) = 7 + Flag(x.a, 128) + Flag(x.b, 64)
            /\ x.t = "Un" => OpcodeOf(i) = 4 + Flag(x.a, 128)
            /\ x.t = "Load" => OpcodeOf(i) = 6 + Flag(x.a, 128)
            /\ x.t \in {"Bin", "Br", "Save", "Un", "Load"} =>
                 /\ IsByte(FieldsOf(LinesOf(shown[i].text)[1])[1])
                 /\ OpcodeOf(i) \in 0..255

C2_Witness ==
    /\ Len(shown) = 1
    /\ prog[1].t = "Bin" /\ prog[1].op = "Div"
    /\ is_im(prog[1].a) /\ is_im(prog[1].b)
    /\ OpcodeOf(1) = 14 + 192

\* C3: While{cond, body} renders `label L`, the guard branch to E on the
\* inverse comparison over cond's operands, the lines of the body, the
\* unconditional branch back to L, `label E`, and nothing else.
C3_WhileShape ==
    \A i \in 1..Len(shown) :
        prog[i].t = "While" =>
            LET x == prog[i]
                st == shown[i].st
                got == FieldLines(shown[i].text)
                body == BlockLines(x.block, Tail(st))
                n == Len(body)
            IN  /\ Len(got) = 4 + n
                /\ got[1] = <<"label", LName(st[1])>>
                /\ got[2] = FieldsOf(Display(
                       Br(EName(st[1]),
                          Cond(x.cond.lhs, x.cond.rhs, Inverse(x.cond.cmp))),
                       <<>>))
                /\ SubSeq(got, 3, 2 + n) = body
                /\ IsUncondBranchTo(got[3 + n], LName(st[1]))
                /\ got[4 + n] = <<"label", EName(st[1])>>

\* C4: If{cond, then, else} renders the branch on cond to T, the lines of
\* the else statements (none when else is empty), the unconditional branch
\* to D, `label T`, the lines of the then statements, `label D`, and
\* nothing else.
C4_IfShape ==
    \A i \in 1..Len(shown) :
        prog[i].t = "If" =>
            LET x == prog[i]
                st == shown[i].st
                k == NumStampsAll(x.no)
                got == FieldLines(shown[i].text)
                no == BlockLines(x.no, SubSeq(st, 2, k + 1))
                yes == BlockLines(x.yes, SubSeq(st, k + 2, Len(st)))
            IN  /\ Len(got) = 4 + Len(no) + Len(yes)
                /\ got[1] = FieldsOf(Display(Br(TName(st[1]), x.cond), <<>>))
                /\ SubSeq(got, 2, 1 + Len(no)) = no
                /\ IsUncondBranchTo(got[2 + Len(no)], DName(st[1]))
                /\ got[3 + Len(no)] =
                       <<"label", TName(st[1])>>
                /\ SubSeq(got, 4 + Len(no), 3 + Len(no) + Len(yes)) = yes
                /\ got[4 + Len(no) + Len(yes)] =
                       <<"label", DName(st[1])>>

\* C6: every rendered line is `label NAME` or four fields: three bytes and
\* a destination that is a register index or, on a branch instruction, a
\* label name; no line is empty and no operand is a label name.
WellFormedLine(f) ==
    \/ Len(f) = 2 /\ f[1] = "label" /\ IsName(f[2])
    \/ /\ Len(f) = 4
       /\ IsByte(f[1]) /\ IsByte(f[2]) /\ IsByte(f[3])
       /\ \/ IsByte(f[4]) /\ NumOf(f[4]) \in 0..7
          \/ IsName(f[4]) /\ (NumOf(f[1]) % 64) \in 16..21

C6_LineFormat ==
    LET all == AllLines IN \A i \in 1..Len(all) : WellFormedLine(all[i])

\* C7 with the opcode of the add line as the parameter: the program
\* [If{R0 eq 0, then [R0 <- R0 add 1], else []}] renders a branch-on-eq to
\* T, an unconditional jump to D, `label T`, the add line, `label D`.
C7Prog == <<If(Cond0, <<AddStmt>>, <<>>)>>
C7_Shape(addOpcode) ==
    (prog = C7Prog /\ Len(shown) = 1) =>
        LET got == FieldLines(shown[1].text)
            st == shown[1].st[1]
        IN  /\ Len(got) = 5
            /\ Len(got[1]) = 4
            /\ IsByte(got[1][1]) /\ NumOf(got[1][1]) % 64 = 16
            /\ got[1][4] = TName(st)
            /\ IsUncondBranchTo(got[2], DName(st))
            /\ got[3] = <<"label", TName(st)>>
            /\ got[4] = <<Dec(addOpcode), "0", "1", "0">>
            /\ got[5] = <<"label", DName(st)>>

\* C7 as stated: the add line's opcode field is 0.
C7_Original == C7_Shape(0)

\* C7 amended: the add line's opcode field is 64, add's number 0 plus 64
\* for its immediate second operand.
C7_Amended == C7_Shape(64)

C7_Witness ==
    /\ prog = C7Prog /\ Len(shown) = 1
    /\ FieldLines(shown[1].text)[4] = <<"64", "0", "1", "0">>

\* C8 with the operand of the always-true comparison as the parameter:
\* every line that branches to a generated L_ or D_ name is the rendering of
\* Br{label: X, cond: (v eq v)}, and every While, If and Loop has one.
C8_Shape(v) ==
    /\ LET all == AllLines
       IN  \A i \in 1..Len(all) :
               LET f == all[i]
               IN  (Len(f) = 4 /\ IsGenerated(f[4])
                       /\ CharAt(f[4], 1) \in {"L", "D"})
                       => f = FieldsOf(Display(Br(f[4], Cond(v, v, "Eq")), <<>>))
    /\ \A i \in 1..Len(shown) :
           prog[i].t \in {"While", "If", "Loop"} =>
               LET X == IF prog[i].t = "If" THEN DName(shown[i].st[1])
                        ELSE LName(shown[i].st[1])
                   ls == LinesOf(shown[i].text)
               IN  \E j \in 1..Len(ls) :
                       ls[j] = Display(Br(X, Cond(v, v, "Eq")), <<>>)

\* C8 as stated: the unconditional branch is the rendering of
\* Br{label: X, cond: (Im(0) eq Im(0))}.
C8_Original == C8_Shape(Im(0))

\* C8 amended: the unconditional branch is the rendering of
\* Br{label: X, cond: (Reg(R0) eq Reg(R0))}: opcode 16 without immediate
\* flags, operand fields 0 and 0.
C8_Amended == C8_Shape(Reg("R0"))

C8_Witness ==
    /\ Len(shown) = 1 /\ prog[1].t = "Loop" /\ prog[1].block # <<>>
    /\ LET all == AllLines
       IN  \E j \in 1..Len(all) :
               all[j] = <<"16", "0", "0", LName(shown[1].st[1])>>

(***************************************************************************)
(* The target machine, running what main printed for a program of leaf     *)
(* statements.  Its instruction set is the opcode table of the operators   *)
(* (add 0, sub 1, load 6, save 7) under the packing of fix_b: +128 marks   *)
(* the first operand as an immediate, +64 the second, so `64 a b d` adds   *)
(* the immediate b to register a and `65 a b d` subtracts it.  Register 6  *)
(* is the program counter: an instruction is four bytes, reading register  *)
(* 6 gives the address of the following instruction and writing it jumps.  *)
(* A label name in an operand field stands for the label's address.  The   *)
(* run is followed until control leaves through a computed jump.           *)
(***************************************************************************)
S_kw == "label"

IsLabelLine(f) == Len(f) = 2 /\ f[1] = S_kw

\* the lines a consumer keeps of the printed statements: the blank ones go
CodeOf(p) ==
    SelectSeq(
        Flatten([i \in 1..Len(p) |-> FieldLines(Display(p[i], <<>>))]),
        LAMBDA f : f # <<>>)

\* address of line i: four bytes per instruction line before it
AddrOf(i) == 4 * Cardinality({j \in 1..(i - 1) : ~IsLabelLine(code[j])})

LabelLine(name) ==
    CHOOSE i \in 1..Len(code) : IsLabelLine(code[i]) /\ code[i][2] = name

ReadReg(r) == IF r % 8 = 6 THEN AddrOf(ip) + 4 ELSE regs[r % 8]

Operand(f, immediate) ==
    IF IsName(f) THEN AddrOf(LabelLine(f))
    ELSE IF immediate THEN NumOf(f)
    ELSE ReadReg(NumOf(f))

Cur == code[ip]
Opcode == NumOf(Cur[1])
Op1 == Operand(Cur[2], Opcode >= 128)
Op2 == Operand(Cur[3], (Opcode % 128) >= 64)
Dest == NumOf(Cur[4]) % 8

ExecProgs ==
    {<<Args, Ret>>,
     <<Call(LabelF), Label(LabelF), Args, Ret>>}

\* stack pointers and register contents the runs start from
StartSp == {0, 3, 128, 255}
StartRegs == {<<11, 22, 33, 44>>, <<0, 0, 0, 0>>, <<255, 1, 255, 1>>}
StartMem == {"zero", "mixed"}

\* the byte at address a (0..255)
MemAt(a) ==
    IF a \in DOMAIN mem.cells THEN mem.cells[a]
    ELSE IF mem.fill = "zero" THEN 0
    ELSE (7 * a + 5) % 256

ExecInit ==
    /\ parsed = "Ok"
    /\ prog \in ExecProgs
    /\ idx = Len(prog) + 1
    /\ stamps = <<>>
    /\ shown = [i \in 1..Len(prog) |->
                   [text |-> Display(prog[i], <<>>), st |-> <<>>]]
    /\ out = Join([i \in 1..Len(prog) |->
                       Println(prog[i], Display(prog[i], <<>>),
                               Len(Display(prog[i], <<>>)))], "")
    /\ now = 255
    /\ code = CodeOf(prog)
    /\ ip = 1
    /\ \E sp \in StartSp, v \in StartRegs :
           regs = [r \in 0..7 |->
                      IF r = 5 THEN sp ELSE IF r \in 1..4 THEN v[r] ELSE 0]
    /\ \E fill \in StartMem : mem = [fill |-> fill, cells |-> <<>>]
    /\ halted = FALSE
    /\ regs0 = regs
    /\ saves = <<>>
    /\ loads = <<>>

Fetching == ~halted /\ ip <= Len(code)

\* `label NAME` occupies no instruction slot
ExecLabel ==
    /\ Fetching
    /\ IsLabelLine(Cur)
    /\ ip' = ip + 1
    /\ UNCHANGED <<code, regs, mem, halted, regs0, saves, loads>>
    /\ UNCHANGED pvars

\* add (0) and sub (1); destination 6 is a jump
ExecArith ==
    /\ Fetching
    /\ ~IsLabelLine(Cur)
    /\ Opcode % 64 \in {0, 1}
    /\ LET res == IF Opcode % 64 = 0 THEN (Op1 + Op2) % 256
                  ELSE (Op1 + 256 - Op2) % 256
       IN  IF Dest # 6
           THEN /\ regs' = [regs EXCEPT ![Dest] = res]
                /\ ip' = ip + 1
                /\ halted' = halted
           ELSE IF IsName(Cur[2])
           THEN /\ ip' = LabelLine(Cur[2])
                /\ UNCHANGED <<regs, halted>>
           ELSE /\ regs' = [regs EXCEPT ![6] = res]
                /\ halted' = TRUE
                /\ ip' = ip
    /\ UNCHANGED <<code, mem, regs0, saves, loads>>
    /\ UNCHANGED pvars

\* load (6): destination <- memory[operand 1]
ExecLoad ==
    /\ Fetching
    /\ ~IsLabelLine(Cur)
    /\ Opcode % 64 = 6
    /\ regs' = [regs EXCEPT ![Dest] = MemAt(Op1)]
    /\ loads' = Append(loads, [addr |-> Op1, reg |-> Dest, val |-> MemAt(Op1)])
    /\ ip' = ip + 1
    /\ UNCHANGED <<code, mem, halted, regs0, saves>>
    /\ UNCHANGED pvars

\* save (7): memory[operand 1] <- operand 2
ExecSave ==
    /\ Fetching
    /\ ~IsLabelLine(Cur)
    /\ Opcode % 64 = 7
    /\ mem' = [mem EXCEPT !.cells =
                   [a \in DOMAIN mem.cells \cup {Op1} |->
                       IF a = Op1 THEN Op2 ELSE mem.cells[a]]]
    /\ saves' = Append(saves, [addr |-> Op1, reg |-> NumOf(Cur[3]), val |-> Op2])
    /\ ip' = ip + 1
    /\ UNCHANGED <<code, regs, halted, regs0, loads>>
    /\ UNCHANGED pvars

ExecNext == ExecLabel \/ ExecArith \/ ExecLoad \/ ExecSave

ExecSpec == ExecInit /\ [][ExecNext]_vars

(***************************************************************************)
(* Claims about the calling protocol (specification ExecSpec).             *)
(***************************************************************************)
Bump == <<"65", "5", "1", "5">>
Unbump == <<"64", "5", "1", "5">>
CountOf(lines, f) == Cardinality({i \in 1..Len(lines) : lines[i] = f})

\* C5: Args then Ret: Args stores registers 1,2,3,4 in that order, each
\* store after a bump; Ret reloads 4,3,2,1 in that order with the opposite
\* adjustment between loads; each of registers 1-4 is reloaded from the cell
\* Args saved it in and holds its value from before Args.
C5_ArgsRetRestores ==
    (prog = <<Args, Ret>> /\ halted) =>
        /\ [i \in 1..Len(saves) |-> saves[i].reg] = <<1, 2, 3, 4>>
        /\ \A i \in 1..4 : code[2 * i - 1] = Bump
        /\ SelectSeq([i \in 1..Len(loads) |-> loads[i].reg],
                     LAMBDA r : r \in 1..4) = <<4, 3, 2, 1>>
        /\ \A i \in 1..5 : code[8 + 2 * i] = Unbump
        /\ \A r \in 1..4 :
               /\ regs[r] = regs0[r]
               /\ \E i \in 1..Len(saves), j \in 1..Len(loads) :
                      /\ saves[i].reg = r /\ loads[j].reg = r
                      /\ saves[i].addr = loads[j].addr

\* C9: Call, Args, Ret: Call and Args write as many stack cells and emit as
\* many bumps as Ret reads cells and emits opposite adjustments, and
\* register 5 holds after Ret the value it held before Call.
C9_StackBalanced ==
    (prog = <<Call(LabelF), Label(LabelF), Args, Ret>> /\ halted) =>
        /\ Len(saves) = Len(loads)
        /\ CountOf(code, Bump) = CountOf(code, Unbump)
        /\ regs[5] = regs0[5]

\* C10: Call, Args, Ret: the final jump of Ret goes to the return address
\* that Call computed with `64 6 8 0` and stored with `7 5 0 0`: the value
\* Ret loads into register 0 comes from the cell Call stored it in.
C10_ReturnsToCaller ==
    (prog = <<Call(LabelF), Label(LabelF), Args, Ret>> /\ halted) =>
        /\ saves[1].reg = 0 /\ saves[1].val = 12
        /\ loads[1].reg = 0
        /\ loads[1].addr = saves[1].addr
        /\ regs[6] = saves[1].val

====
